---- MODULE Spec2Model ----
(***************************************************************************)
(* HedgeLab: the Position Ledger (src/portfolio/portfolio_manager.py on    *)
(* top of src/data/database.py) and the Signal & Opportunity Engine        *)
(* (src/opportunities/opportunity_detector.py).                            *)
(*                                                                         *)
(* Numbers that the program keeps as Python floats are exact rationals     *)
(* here, a pair <<n, d>> with d > 0 in lowest terms; binary rounding is    *)
(* not part of the model.                                                  *)
(***************************************************************************)
EXTENDS Integers, Sequences, FiniteSets, TLC

(***************************************************************************)
(* Bounds of the model                                                     *)
(***************************************************************************)
\* rows of table 'trades' up to which the ledger handlers are explored
MaxTrades == 3
\* the same for the update rule alone
MaxApply == 4
\* leading symbols of the watchlist for which the provider's answer varies
MaxVaried == 2
\* the reading of the clock up to which time passes: two cache lifetimes
MaxClock == 1810
\* snapshots of the portfolio value up to which the analytics are explored
MaxSnapshots == 4

(***************************************************************************)
(* Rational arithmetic                                                     *)
(***************************************************************************)
Abs(x) == IF x < 0 THEN -x ELSE x

RECURSIVE GCD(_, _)
GCD(a, b) == IF b = 0 THEN a ELSE GCD(b, a % b)

\* the rational n/d in lowest terms with a positive denominator (d # 0)
Rat(n, d) ==
    LET g == GCD(Abs(n), Abs(d))
        s == IF d < 0 THEN -1 ELSE 1
    IN  <<(s * n) \div g, (s * d) \div g>>

RInt(i)    == <<i, 1>>
RAdd(a, b) == Rat(a[1] * b[2] + b[1] * a[2], a[2] * b[2])
RSub(a, b) == Rat(a[1] * b[2] - b[1] * a[2], a[2] * b[2])
RMul(a, b) == Rat(a[1] * b[1], a[2] * b[2])
RDiv(a, b) == Rat(a[1] * b[2], a[2] * b[1])
RLt(a, b)  == a[1] * b[2] < b[1] * a[2]
RLe(a, b)  == a[1] * b[2] <= b[1] * a[2]
RMin(a, b) == IF RLe(a, b) THEN a ELSE b
RMax(a, b) == IF RLe(a, b) THEN b ELSE a

\* A float is a rational or NaN; every comparison with NaN is false
NaN == <<0, 0>>
IsNaN(x) == x = NaN
FLt(a, b) == ~IsNaN(a) /\ ~IsNaN(b) /\ RLt(a, b)
FLe(a, b) == ~IsNaN(a) /\ ~IsNaN(b) /\ RLe(a, b)
FGt(a, b) == FLt(b, a)
FGe(a, b) == FLe(b, a)

(***************************************************************************)
(* Inputs of the ledger                                                    *)
(***************************************************************************)
Symbols    == {"AAPL", "MSFT"}
Sides      == {"BUY", "SELL"}
\* what the trade form can hand to its validation: 0 is the invalid input
FormQuantities == {0, 1, 2}
FormPrices     == {0, 1, 3}
\* Close of the latest bar; get_current_price gives 0 when there is none
MarketPrices   == {1, 3}

VARIABLES
    connected,      \* Database.is_connected()
    trades,         \* table 'trades', in insertion order
    positions,      \* table 'positions', one row per symbol
    lastOp,         \* what the last ledger handler showed to the user
    quote,          \* current_price in the last position update, None before
    technical_data, \* the rows of the indicator frame of the analysed symbol
    signals,        \* what _get_technical_signals returned for it
    fundamentals,   \* the stock_info dict handed to a strategy called alone
    strategy_out,   \* what the strategy called alone has returned
    market,         \* what the data provider answers for each symbol
    scan_type,      \* arguments of the running or last scan
    filters,
    scanIdx,        \* position in the watchlist of the next symbol to scan
    opportunities,  \* the opportunities the scan has collected
    warnings,       \* symbols the scan has warned about (st.warning)
    fetched,        \* symbols the scan has asked the provider for
    scanStatus      \* "idle", "running", "returned" or "raised"

VARIABLES
    now,            \* time.time(), in seconds
    last_api_call,  \* MarketDataProvider.last_api_call
    MOCK_DATA_AVAILABLE, \* the import of mock_data succeeded
    stock_cache,    \* entries of @st.cache_data on get_stock_data
    multi_cache,    \* entries of @st.cache_data on get_multiple_stocks
    indices_cache,  \* entries of @st.cache_data on get_market_indices
    api_calls,      \* the last two calls that reached the vendor
    vendor,         \* what the vendor can answer, and after how many seconds
    invocations,    \* the runs of get_stock_data's body in the last call
    served,         \* what the last call of the provider returned
    indexPos,       \* position in the index loop, 0 outside it
    results,        \* results of the running index loop
    rate_limit_hit

VARIABLES
    portfolio_performance, \* table 'portfolio_performance', in insertion order
    performance_data, \* the frame of table 'portfolio_performance' in use
    analytics,        \* the metrics _render_performance_analytics has shown
    report            \* the metrics the report generator has calculated

ledgerVars == <<connected, trades, positions, lastOp, quote>>
marketVars == <<now, last_api_call, MOCK_DATA_AVAILABLE, stock_cache, multi_cache,
                indices_cache, api_calls, vendor, invocations, served,
                indexPos, results, rate_limit_hit>>
analyticsVars == <<portfolio_performance, performance_data, analytics, report>>
serviceVars == <<marketVars, analyticsVars>>
signalVars == <<technical_data, signals, fundamentals, strategy_out>>
scanVars == <<market, scan_type, filters, scanIdx, opportunities, warnings, fetched, scanStatus>>
vars == <<connected, trades, positions, lastOp, quote, technical_data, signals,
          fundamentals, strategy_out,
          market, scan_type, filters, scanIdx, opportunities, warnings, fetched, scanStatus,
          now, last_api_call, MOCK_DATA_AVAILABLE, stock_cache, multi_cache,
          indices_cache, api_calls, vendor, invocations, served,
          indexPos, results, rate_limit_hit,
          portfolio_performance, performance_data, analytics, report>>

\* no strategy has been called alone
StrategyIdle == fundamentals = <<>> /\ strategy_out = [call |-> "none", value |-> <<>>]

\* no scan has run, and the other services have not been used
ScanIdle ==
    /\ market = <<>> /\ scan_type = "" /\ filters = <<>> /\ scanIdx = 0
    /\ opportunities = <<>> /\ warnings = <<>> /\ fetched = {} /\ scanStatus = "idle"

\* no snapshot has been read and no metric calculated
AnalyticsIdle ==
    /\ portfolio_performance = <<>>
    /\ performance_data = <<>> /\ analytics = <<>> /\ report = <<>>

\* the market data provider right after its construction (lines 21-25)
ServicesIdle ==
    /\ AnalyticsIdle
    /\ now = 1 /\ MOCK_DATA_AVAILABLE = TRUE /\ vendor = {}
    /\ last_api_call = 0
    /\ stock_cache = <<>> /\ multi_cache = <<>> /\ indices_cache = <<>>
    /\ api_calls = <<>> /\ invocations = <<>>
    /\ served = [call |-> "none", at |-> 0, frames |-> <<>>]
    /\ indexPos = 0 /\ results = {} /\ rate_limit_hit = FALSE

(***************************************************************************)
(* Database (src/data/database.py).  A query result is the DataFrame built *)
(* from its rows: a function from the key to the row.  pd.DataFrame() and  *)
(* pd.DataFrame([]) have no columns at all; that is EmptyFrame.  Every     *)
(* table call may raise inside the client; the parameter ok says it did    *)
(* not.                                                                    *)
(***************************************************************************)
EmptyFrame == <<>>
IsEmpty(frame) == DOMAIN frame = {}

Reverse(seq) == [i \in 1..Len(seq) |-> seq[Len(seq) + 1 - i]]

is_connected == connected

\* lines 58-74, 96-110 and 196-209: True when the rows were upserted
save_market_data(ok) == is_connected /\ ok
save_opportunity(ok) == is_connected /\ ok
save_portfolio_performance(ok) == is_connected /\ ok

\* lines 76-94, 112-128 and 211-228: the frame of the rows the query gave
get_market_data(ok, rows) == IF is_connected /\ ok THEN rows ELSE EmptyFrame
get_opportunities(ok, rows) == IF is_connected /\ ok THEN rows ELSE EmptyFrame
get_portfolio_performance(ok, rows) == IF is_connected /\ ok THEN rows ELSE EmptyFrame

\* lines 130-144 without the test of the connection
save_trade_NoConnectionCheck(ok) == ok

\* True when the row was inserted
save_trade(ok) == is_connected /\ ok

\* rows ordered by timestamp, newest first
get_trades(ok) == IF is_connected /\ ok THEN Reverse(trades) ELSE EmptyFrame

get_positions(ok) == IF is_connected /\ ok THEN positions ELSE EmptyFrame

\* True when the row was upserted
update_position(ok) == is_connected /\ ok

\* line 189 with the table replaced by the one row instead of an upsert
Upsert_Replace(table, row) == [s \in {row.symbol} |-> row]

\* table 'positions' after upsert of one row, keyed by its symbol
Upsert(table, row) ==
    [s \in DOMAIN table \cup {row.symbol} |-> IF s = row.symbol THEN row ELSE table[s]]

(***************************************************************************)
(* Position Ledger (src/portfolio/portfolio_manager.py)                    *)
(***************************************************************************)
Trade(symbol, side, quantity, price) ==
    [symbol |-> symbol, side |-> side, quantity |-> quantity, price |-> price,
     total_value |-> quantity * price]

\* lines 465-474 with the blended cost divided by the traded quantity
NewPosition_DividesByTradeQuantity(current_qty, current_avg_cost, side, quantity, price) ==
    IF side = "BUY"
    THEN LET new_qty == current_qty + quantity
         IN  [quantity |-> new_qty,
              avg_cost |-> IF new_qty # 0
                           THEN RDiv(RAdd(RMul(RInt(current_qty), current_avg_cost),
                                          RInt(quantity * price)),
                                     RInt(quantity))
                           ELSE RInt(price)]
    ELSE [quantity |-> current_qty - quantity, avg_cost |-> current_avg_cost]

\* lines 465-474 with a sell that takes the sale price as the new average cost
NewPosition_SellReprices(current_qty, current_avg_cost, side, quantity, price) ==
    IF side = "BUY"
    THEN LET new_qty == current_qty + quantity
         IN  [quantity |-> new_qty,
              avg_cost |-> IF new_qty # 0
                           THEN RDiv(RAdd(RMul(RInt(current_qty), current_avg_cost),
                                          RInt(quantity * price)),
                                     RInt(new_qty))
                           ELSE RInt(price)]
    ELSE [quantity |-> current_qty - quantity, avg_cost |-> RInt(price)]

\* lines 465-474 with a buy that covers a short exactly keeping the old
\* average cost
NewPosition_CoverKeepsCost(current_qty, current_avg_cost, side, quantity, price) ==
    IF side = "BUY"
    THEN LET new_qty == current_qty + quantity
         IN  [quantity |-> new_qty,
              avg_cost |-> IF new_qty # 0
                           THEN RDiv(RAdd(RMul(RInt(current_qty), current_avg_cost),
                                          RInt(quantity * price)),
                                     RInt(new_qty))
                           ELSE current_avg_cost]
    ELSE [quantity |-> current_qty - quantity, avg_cost |-> current_avg_cost]

\* lines 465-474: the quantity and average cost after one trade
NewPosition(current_qty, current_avg_cost, side, quantity, price) ==
    IF side = "BUY"
    THEN LET new_qty == current_qty + quantity
         IN  [quantity |-> new_qty,
              avg_cost |-> IF new_qty # 0
                           THEN RDiv(RAdd(RMul(RInt(current_qty), current_avg_cost),
                                          RInt(quantity * price)),
                                     RInt(new_qty))
                           ELSE RInt(price)]
    ELSE [quantity |-> current_qty - quantity, avg_cost |-> current_avg_cost]

\* lines 476-478 with the size of the position in place of its signed quantity
Pnl_Unsigned(new_qty, new_avg_cost, current_price) ==
    IF new_qty # 0
    THEN RSub(RInt(Abs(new_qty) * current_price), RMul(RInt(Abs(new_qty)), new_avg_cost))
    ELSE RInt(0)

\* lines 476-478
Pnl(new_qty, new_avg_cost, current_price) ==
    IF new_qty # 0
    THEN RSub(RInt(new_qty * current_price), RMul(RInt(new_qty), new_avg_cost))
    ELSE RInt(0)

\* lines 455-481: the row that is upserted, from the frame get_positions gave
PositionRow(frame, symbol, side, quantity, price, current_price) ==
    LET found == symbol \in DOMAIN frame
        current_qty == IF found THEN frame[symbol].quantity ELSE 0
        current_avg_cost == IF found THEN frame[symbol].avg_cost ELSE RInt(0)
        new == NewPosition(current_qty, current_avg_cost, side, quantity, price)
    IN  [symbol |-> symbol, quantity |-> new.quantity, avg_cost |-> new.avg_cost,
         pnl |-> Pnl(new.quantity, new.avg_cost, current_price)]

\* lines 451-481; get_positions, get_current_price (0 when no bar could be
\* fetched) and update_position each have their own outcome; indexing the
\* column 'symbol' of a frame without columns raises KeyError
update_position_from_trade(symbol, side, quantity, price) ==
    \E readOk \in BOOLEAN :
        LET frame == get_positions(readOk)
        IN  IF IsEmpty(frame)
            THEN /\ lastOp' = "KeyError"
                 /\ UNCHANGED <<positions, quote>>
            ELSE \E current_price \in MarketPrices \cup {0}, upsertOk \in BOOLEAN :
                 /\ quote' = <<current_price>>
                 /\ IF update_position(upsertOk)
                    THEN /\ positions' = Upsert(positions,
                                PositionRow(frame, symbol, side, quantity, price, current_price))
                         /\ lastOp' = "logged"
                    ELSE /\ lastOp' = "logged, position not updated"
                         /\ UNCHANGED positions

\* lines 424-449
log_trade(symbol, side, quantity, price) ==
    /\ \E saveOk \in BOOLEAN :
        IF save_trade(saveOk)
        THEN /\ trades' = Append(trades, Trade(symbol, side, quantity, price))
             /\ update_position_from_trade(symbol, side, quantity, price)
        ELSE /\ lastOp' = "Failed to log trade"
             /\ UNCHANGED <<trades, positions, quote>>
    /\ UNCHANGED connected

\* lines 219-225: the submitted trade form
render_trade_logger(symbol, side, quantity, price) ==
    IF symbol # "" /\ quantity > 0 /\ price > 0
    THEN log_trade(symbol, side, quantity, price)
    ELSE /\ lastOp' = "rejected"
         /\ UNCHANGED <<connected, trades, positions, quote>>

\* lines 502-533: positions recomputed from a frame of trades
RECURSIVE SumQuantity(_, _), SumCost(_, _)
SumQuantity(frame, symbol) ==
    IF IsEmpty(frame) THEN 0
    ELSE LET trade == Head(frame)
             rest == SumQuantity(Tail(frame), symbol)
         IN  IF trade.symbol # symbol THEN rest
             ELSE IF trade.side = "BUY" THEN rest + trade.quantity
             ELSE rest - trade.quantity
SumCost(frame, symbol) ==
    IF IsEmpty(frame) THEN 0
    ELSE LET trade == Head(frame)
             rest == SumCost(Tail(frame), symbol)
         IN  IF trade.symbol = symbol /\ trade.side = "BUY"
             THEN rest + trade.total_value ELSE rest

calculate_positions_from_trades(frame) ==
    LET seen == {frame[i].symbol : i \in DOMAIN frame}
        kept == {s \in seen : SumQuantity(frame, s) # 0}
    IN  [s \in kept |->
            [symbol |-> s,
             quantity |-> SumQuantity(frame, s),
             avg_cost |-> IF SumQuantity(frame, s) > 0
                          THEN Rat(SumCost(frame, s), SumQuantity(frame, s))
                          ELSE RInt(0),
             pnl |-> RInt(0)]]

\* lines 369-380
get_current_positions(posOk, tradesOk) ==
    LET frame == get_positions(posOk)
    IN  IF IsEmpty(frame)
        THEN LET all == get_trades(tradesOk)
             IN  IF ~IsEmpty(all) THEN calculate_positions_from_trades(all) ELSE frame
        ELSE frame

\* lines 560-578
close_position(symbol) ==
    \E posOk \in BOOLEAN, tradesOk \in BOOLEAN :
        LET frame == get_current_positions(posOk, tradesOk)
        IN  IF IsEmpty(frame)
            THEN /\ lastOp' = "KeyError"
                 /\ UNCHANGED <<connected, trades, positions, quote>>
            ELSE IF symbol \notin DOMAIN frame
            THEN /\ lastOp' = "nothing to close"
                 /\ UNCHANGED <<connected, trades, positions, quote>>
            ELSE \E current_price \in MarketPrices \cup {0} :
                    LET current_qty == frame[symbol].quantity
                    IN  IF current_qty > 0
                        THEN log_trade(symbol, "SELL", current_qty, current_price)
                        ELSE log_trade(symbol, "BUY", Abs(current_qty), current_price)

(***************************************************************************)
(* The ledger as a state machine.  The tables outlive the process, so the  *)
(* program starts on whatever the database holds: nothing at all, or the   *)
(* rows an earlier trade left behind.                                      *)
(***************************************************************************)
SeedTrades == <<Trade("MSFT", "BUY", 2, 3)>>
SeedPositions ==
    [s \in {"MSFT"} |->
        [symbol |-> "MSFT", quantity |-> 2, avg_cost |-> RInt(3), pnl |-> RInt(0)]]

InitLedger ==
    /\ connected \in BOOLEAN
    /\ \/ trades = <<>> /\ positions = EmptyFrame
       \/ trades = SeedTrades /\ positions = SeedPositions
    /\ lastOp = "none" /\ quote = <<>>
    /\ technical_data = <<>> /\ signals = <<>> /\ StrategyIdle
    /\ ScanIdle /\ ServicesIdle

SubmitTrade ==
    /\ Len(trades) < MaxTrades
    /\ \E symbol \in Symbols \cup {""}, side \in Sides,
          quantity \in FormQuantities, price \in FormPrices :
            render_trade_logger(symbol, side, quantity, price)
    /\ UNCHANGED <<signalVars, scanVars, serviceVars>>

ClosePosition ==
    /\ Len(trades) < MaxTrades
    /\ \E symbol \in Symbols : close_position(symbol)
    /\ UNCHANGED <<signalVars, scanVars, serviceVars>>

NextLedger == SubmitTrade \/ ClosePosition

SpecLedger == InitLedger /\ [][NextLedger]_vars

(***************************************************************************)
(* The update rule alone: valid trades from the form on a database that    *)
(* answers every call and already holds a position.                        *)
(***************************************************************************)
InitApply ==
    /\ connected = TRUE
    /\ trades = SeedTrades
    /\ positions = SeedPositions
    /\ lastOp = "none" /\ quote = <<>>
    /\ technical_data = <<>> /\ signals = <<>> /\ StrategyIdle
    /\ ScanIdle /\ ServicesIdle

ApplyTrade ==
    /\ Len(trades) < MaxApply
    /\ \E symbol \in Symbols, side \in Sides,
          quantity \in FormQuantities \ {0}, price \in FormPrices \ {0} :
            render_trade_logger(symbol, side, quantity, price)
    /\ lastOp' = "logged"
    /\ UNCHANGED <<signalVars, scanVars, serviceVars>>

NextApply == ApplyTrade

SpecApply == InitApply /\ [][NextApply]_vars

(***************************************************************************)
(* Properties of the ledger                                                *)
(***************************************************************************)
Last(seq) == seq[Len(seq)]
TradesOf(symbol) == SelectSeq(trades, LAMBDA t : t.symbol = symbol)
StoredQuantity(table, symbol) ==
    IF symbol \in DOMAIN table THEN table[symbol].quantity ELSE 0
StoredAvgCost(table, symbol) ==
    IF symbol \in DOMAIN table THEN table[symbol].avg_cost ELSE RInt(0)

RECURSIVE Volume(_), Cost(_)
Volume(fills) == IF fills = <<>> THEN 0 ELSE Head(fills).quantity + Volume(Tail(fills))
Cost(fills) ==
    IF fills = <<>> THEN 0
    ELSE Head(fills).quantity * Head(fills).price + Cost(Tail(fills))

\* C1: for every symbol, the position recomputed from the whole trade log
\* (calculate_positions_from_trades) is the position that applying the trades
\* one by one has stored: same quantity (no row counts as quantity 0) and,
\* unless flat, same avg_cost.
C1_ReplayEqualsStored ==
    LET replay == calculate_positions_from_trades(Reverse(trades))
    IN  \A s \in Symbols :
            /\ StoredQuantity(replay, s) = StoredQuantity(positions, s)
            /\ StoredQuantity(replay, s) # 0
                    => StoredAvgCost(replay, s) = StoredAvgCost(positions, s)

\* C2: a step that appends a Trade also stores the Position that the trade
\* gives, starting from the Position stored before (no row: quantity 0,
\* avg_cost 0).
C2_AllOrNothing ==
    [][Len(trades') > Len(trades) =>
        LET t == Last(trades')
            new == NewPosition(StoredQuantity(positions, t.symbol),
                               StoredAvgCost(positions, t.symbol),
                               t.side, t.quantity, t.price)
        IN  /\ t.symbol \in DOMAIN positions'
            /\ positions'[t.symbol].quantity = new.quantity
            /\ positions'[t.symbol].avg_cost = new.avg_cost]_vars

\* C3: every Trade in the trade log has quantity > 0 and price > 0.
C3_TradesPositive ==
    \A i \in DOMAIN trades : trades[i].quantity > 0 /\ trades[i].price > 0

\* C4: every stored Position has avg_cost >= 0.
C4_AvgCostNonNegative ==
    \A s \in DOMAIN positions : positions[s].avg_cost[1] >= 0

\* C5: a symbol whose trades are all BUYs holds the sum of the bought
\* quantities at the volume-weighted average price of the fills.
C5_AllBuyVWAP ==
    \A s \in Symbols :
        LET fills == TradesOf(s)
        IN  (fills # <<>> /\ \A i \in DOMAIN fills : fills[i].side = "BUY")
                => /\ s \in DOMAIN positions
                   /\ positions[s].quantity = Volume(fills)
                   /\ positions[s].avg_cost = Rat(Cost(fills), Volume(fills))

\* two or more BUYs at different prices: the average is not a fill price
C5_Witness ==
    \E s \in Symbols :
        LET fills == TradesOf(s)
        IN  /\ Len(fills) >= 2
            /\ \A i \in DOMAIN fills : fills[i].side = "BUY"
            /\ s \in DOMAIN positions
            /\ positions[s].avg_cost[2] # 1

\* C6: a SELL of q that is applied to a Position (qty, avg_cost) stores
\* quantity qty - q and the same avg_cost, also when that takes it short.
C6_SellKeepsAvgCost ==
    [][(Len(trades') > Len(trades) /\ lastOp' = "logged" /\ Last(trades').side = "SELL") =>
        LET t == Last(trades')
        IN  /\ positions'[t.symbol].quantity
                    = StoredQuantity(positions, t.symbol) - t.quantity
            /\ positions'[t.symbol].avg_cost = StoredAvgCost(positions, t.symbol)]_vars

\* a long position sold into a short one, still at its average cost of 3
C6_Witness ==
    /\ lastOp = "logged"
    /\ trades # <<>>
    /\ Last(trades).side = "SELL"
    /\ Last(trades).symbol = "MSFT"
    /\ Last(trades).price = 1
    /\ positions["MSFT"].quantity < 0
    /\ positions["MSFT"].avg_cost = RInt(3)

\* C18: when close_position has recorded a trade for a symbol whose stored
\* quantity was not 0, and has not raised, it has appended exactly one
\* trade, a SELL of the stored quantity of a long position or a BUY of the
\* absolute quantity of a short one, and the stored quantity is 0 afterwards.
C18_CloseZeroesPosition ==
    [][(/\ ClosePosition
        /\ Len(trades') > Len(trades)
        /\ lastOp' # "KeyError"
        /\ StoredQuantity(positions, Last(trades').symbol) # 0) =>
        LET t == Last(trades')
            qty == StoredQuantity(positions, t.symbol)
        IN  /\ Len(trades') = Len(trades) + 1
            /\ t.side = (IF qty > 0 THEN "SELL" ELSE "BUY")
            /\ t.quantity = Abs(qty)
            /\ StoredQuantity(positions', t.symbol) = 0]_vars

\* rows that a query of a table can give
SampleRows == {EmptyFrame, SeedTrades}

\* C19: while the database is not connected, every save and update returns
\* False and every get returns an empty frame, whatever the tables hold, and
\* no handler changes a table: log_trade appends no trade and stores no
\* position.
C19_NotConnectedIsInert ==
    [][~connected =>
        /\ \A ok \in BOOLEAN :
            /\ ~save_market_data(ok) /\ ~save_opportunity(ok) /\ ~save_trade(ok)
            /\ ~update_position(ok) /\ ~save_portfolio_performance(ok)
            /\ IsEmpty(get_trades(ok)) /\ IsEmpty(get_positions(ok))
            /\ \A rows \in SampleRows :
                /\ IsEmpty(get_market_data(ok, rows))
                /\ IsEmpty(get_opportunities(ok, rows))
                /\ IsEmpty(get_portfolio_performance(ok, rows))
        /\ trades' = trades
        /\ positions' = positions]_vars

\* a valid trade was submitted without a connection, over tables that hold
\* rows: nothing was logged
C19_Witness ==
    /\ ~connected
    /\ lastOp = "Failed to log trade"
    /\ trades = SeedTrades
    /\ positions = SeedPositions

\* C20: a BUY of q at p that is applied to a Position (qty, avg_cost) stores
\* quantity qty + q and, when that is not 0, avg_cost
\* (qty * avg_cost + q * p) / (qty + q); when it is 0, avg_cost p.
C20_BuyBlendsCost ==
    [][(Len(trades') > Len(trades) /\ lastOp' = "logged" /\ Last(trades').side = "BUY") =>
        LET t == Last(trades')
            qty == StoredQuantity(positions, t.symbol)
            avg_cost == StoredAvgCost(positions, t.symbol)
        IN  /\ positions'[t.symbol].quantity = qty + t.quantity
            /\ positions'[t.symbol].avg_cost =
                    IF qty + t.quantity # 0
                    THEN Rat(qty * avg_cost[1] + t.quantity * t.price * avg_cost[2],
                             avg_cost[2] * (qty + t.quantity))
                    ELSE RInt(t.price)]_vars

\* a short of 2 at average cost 3 that a BUY of 2 at 1 has covered exactly:
\* the stored average cost is the price of the BUY
C20_Witness ==
    /\ lastOp = "logged"
    /\ Len(trades) = 4
    /\ trades[2].symbol = "MSFT" /\ trades[2].side = "SELL" /\ trades[2].quantity = 2
    /\ trades[3].symbol = "MSFT" /\ trades[3].side = "SELL" /\ trades[3].quantity = 2
    /\ trades[4] = Trade("MSFT", "BUY", 2, 1)
    /\ positions["MSFT"].quantity = 0
    /\ positions["MSFT"].avg_cost = RInt(1)

\* C21: the pnl stored with the Position a trade has given is
\* new_qty * (current_price - new_avg_cost), and 0 when new_qty = 0, where
\* current_price is what _get_current_price returned during the update.
C21_PnlOfStoredPosition ==
    [][(Len(trades') > Len(trades) /\ lastOp' = "logged") =>
        LET row == positions'[Last(trades').symbol]
            current_price == quote'[1]
        IN  row.pnl = IF row.quantity = 0 THEN RInt(0)
                      ELSE RMul(RInt(row.quantity),
                                RSub(RInt(current_price), row.avg_cost))]_vars

\* BUY 2 at 1, then SELL 1 at 3 with the current price at 3: 1 * (3 - 1) = 2
C21_Witness ==
    /\ lastOp = "logged"
    /\ Len(trades) = 3
    /\ trades[2] = Trade("AAPL", "BUY", 2, 1)
    /\ trades[3] = Trade("AAPL", "SELL", 1, 3)
    /\ quote = <<3>>
    /\ positions["AAPL"].quantity = 1
    /\ positions["AAPL"].avg_cost = RInt(1)
    /\ positions["AAPL"].pnl = RInt(2)

\* C28: a step that records a trade for symbol S leaves the stored Position
\* of every other symbol as it was (present or absent, same quantity, avg_cost
\* and pnl), and the table holds one row per symbol, the row of that symbol.
C28_OnlyTradedSymbolChanges ==
    [][Len(trades') > Len(trades) =>
        /\ \A s \in Symbols \ {Last(trades').symbol} :
            /\ s \in DOMAIN positions' <=> s \in DOMAIN positions
            /\ s \in DOMAIN positions => positions'[s] = positions[s]
        /\ \A s \in DOMAIN positions' : positions'[s].symbol = s]_vars

\* a trade of AAPL has been stored next to the position of MSFT, which is
\* still the row the database held at the start
C28_Witness ==
    /\ lastOp = "logged"
    /\ trades # <<>>
    /\ Last(trades).symbol = "AAPL"
    /\ DOMAIN positions = {"AAPL", "MSFT"}
    /\ positions["MSFT"] = SeedPositions["MSFT"]
    /\ positions["AAPL"].quantity # 0

\* C29: a trade of q at p for a symbol without a stored Position, in an empty
\* table or next to other rows, stores (q, p) for a BUY and (-q, 0) for a
\* SELL.  With rows of other symbols only the updates the database accepted
\* are looked at; on the empty table every recorded trade is.
C29_NoStoredPositionStartsFlat ==
    [][(/\ Len(trades') > Len(trades)
        /\ Last(trades').symbol \notin DOMAIN positions
        /\ (IsEmpty(positions) \/ lastOp' = "logged")) =>
        LET t == Last(trades')
        IN  /\ t.symbol \in DOMAIN positions'
            /\ positions'[t.symbol].quantity =
                    (IF t.side = "BUY" THEN t.quantity ELSE -t.quantity)
            /\ positions'[t.symbol].avg_cost =
                    (IF t.side = "BUY" THEN RInt(t.price) ELSE RInt(0))]_vars

(***************************************************************************)
(* Signal Aggregator (src/opportunities/opportunity_detector.py)           *)
(***************************************************************************)
Signal(direction, strength) == [signal |-> direction, strength |-> strength]

\* lines 367-398 with the RSI strengths scaled by 20 instead of 30
get_technical_signals_Scale20(data) ==
    LET latest == data[Len(data)]
        previous == data[Len(data) - 1]
    IN  [name \in {"RSI", "MACD", "Moving Average"} |->
            CASE name = "RSI" ->
                    IF FLt(latest.RSI, RInt(30))
                    THEN Signal("BUY", RDiv(RSub(RInt(30), latest.RSI), RInt(20)))
                    ELSE IF FGt(latest.RSI, RInt(70))
                    THEN Signal("SELL", RDiv(RSub(latest.RSI, RInt(70)), RInt(20)))
                    ELSE Signal("NEUTRAL", Rat(1, 2))
              [] name = "MACD" ->
                    IF FGt(latest.MACD, latest.MACD_signal)
                        /\ FLe(previous.MACD, previous.MACD_signal)
                    THEN Signal("BUY", Rat(4, 5))
                    ELSE IF FLt(latest.MACD, latest.MACD_signal)
                        /\ FGe(previous.MACD, previous.MACD_signal)
                    THEN Signal("SELL", Rat(4, 5))
                    ELSE Signal("NEUTRAL", Rat(1, 2))
              [] name = "Moving Average" ->
                    IF FGt(latest.Close, latest.MA20) /\ FGt(latest.MA20, latest.MA50)
                    THEN Signal("BUY", Rat(7, 10))
                    ELSE IF FLt(latest.Close, latest.MA20) /\ FLt(latest.MA20, latest.MA50)
                    THEN Signal("SELL", Rat(7, 10))
                    ELSE Signal("NEUTRAL", Rat(1, 2))]

\* lines 367-398 with the MACD signal taken from the level of the latest bar
get_technical_signals_MacdLevel(data) ==
    LET latest == data[Len(data)]
        previous == data[Len(data) - 1]
    IN  [name \in {"RSI", "MACD", "Moving Average"} |->
            CASE name = "RSI" ->
                    IF FLt(latest.RSI, RInt(30))
                    THEN Signal("BUY", RDiv(RSub(RInt(30), latest.RSI), RInt(30)))
                    ELSE IF FGt(latest.RSI, RInt(70))
                    THEN Signal("SELL", RDiv(RSub(latest.RSI, RInt(70)), RInt(30)))
                    ELSE Signal("NEUTRAL", Rat(1, 2))
              [] name = "MACD" ->
                    IF FGt(latest.MACD, latest.MACD_signal)
                    THEN Signal("BUY", Rat(4, 5))
                    ELSE IF FLt(latest.MACD, latest.MACD_signal)
                    THEN Signal("SELL", Rat(4, 5))
                    ELSE Signal("NEUTRAL", Rat(1, 2))
              [] name = "Moving Average" ->
                    IF FGt(latest.Close, latest.MA20) /\ FGt(latest.MA20, latest.MA50)
                    THEN Signal("BUY", Rat(7, 10))
                    ELSE IF FLt(latest.Close, latest.MA20) /\ FLt(latest.MA20, latest.MA50)
                    THEN Signal("SELL", Rat(7, 10))
                    ELSE Signal("NEUTRAL", Rat(1, 2))]

\* lines 367-398, for a frame of two rows or more (data.iloc[-2] raises
\* IndexError on a shorter one)
get_technical_signals(data) ==
    LET latest == data[Len(data)]
        previous == data[Len(data) - 1]
    IN  [name \in {"RSI", "MACD", "Moving Average"} |->
            CASE name = "RSI" ->
                    IF FLt(latest.RSI, RInt(30))
                    THEN Signal("BUY", RDiv(RSub(RInt(30), latest.RSI), RInt(30)))
                    ELSE IF FGt(latest.RSI, RInt(70))
                    THEN Signal("SELL", RDiv(RSub(latest.RSI, RInt(70)), RInt(30)))
                    ELSE Signal("NEUTRAL", Rat(1, 2))
              [] name = "MACD" ->
                    IF FGt(latest.MACD, latest.MACD_signal)
                        /\ FLe(previous.MACD, previous.MACD_signal)
                    THEN Signal("BUY", Rat(4, 5))
                    ELSE IF FLt(latest.MACD, latest.MACD_signal)
                        /\ FGe(previous.MACD, previous.MACD_signal)
                    THEN Signal("SELL", Rat(4, 5))
                    ELSE Signal("NEUTRAL", Rat(1, 2))
              [] name = "Moving Average" ->
                    IF FGt(latest.Close, latest.MA20) /\ FGt(latest.MA20, latest.MA50)
                    THEN Signal("BUY", Rat(7, 10))
                    ELSE IF FLt(latest.Close, latest.MA20) /\ FLt(latest.MA20, latest.MA50)
                    THEN Signal("SELL", Rat(7, 10))
                    ELSE Signal("NEUTRAL", Rat(1, 2))]

\* one row of the indicator frame
Row(close, volume, rsi, macd, macd_signal, ma20, ma50) ==
    [Close |-> close, Volume |-> volume, RSI |-> rsi, MACD |-> macd,
     MACD_signal |-> macd_signal, MA20 |-> ma20, MA50 |-> ma50]

\* indicator values of the last two bars; an indicator is NaN on a bar that
\* its window does not cover
RsiValues  == {NaN} \cup {RInt(5 * k) : k \in 0..20}
MacdValues == {NaN, RInt(0), RInt(1)}
CloseValues == {RInt(1), RInt(3)}
Ma20Values == {NaN, RInt(2)}
Ma50Values == {NaN, RInt(1), RInt(2), RInt(3)}

InitSignals ==
    /\ connected = FALSE /\ trades = <<>> /\ positions = EmptyFrame /\ lastOp = "none" /\ quote = <<>>
    /\ \E rsi \in RsiValues, macd \in MacdValues, macd_signal \in MacdValues,
          prev_macd \in MacdValues, prev_signal \in MacdValues,
          close \in CloseValues, ma20 \in Ma20Values, ma50 \in Ma50Values :
            technical_data =
                <<Row(RInt(2), RInt(1), RInt(50), prev_macd, prev_signal, RInt(2), RInt(2)),
                  Row(close, RInt(1), rsi, macd, macd_signal, ma20, ma50)>>
    /\ signals = <<>> /\ StrategyIdle
    /\ ScanIdle /\ ServicesIdle

\* lines 128-139: the signals of the analysed symbol
RenderTechnicalAnalysis ==
    /\ technical_data # <<>>
    /\ signals' = get_technical_signals(technical_data)
    /\ UNCHANGED <<ledgerVars, technical_data, fundamentals, strategy_out, scanVars, serviceVars>>

NextSignals == RenderTechnicalAnalysis

SpecSignals == InitSignals /\ [][NextSignals]_vars

\* C10: every Signal of _get_technical_signals has a direction among BUY,
\* SELL and NEUTRAL and a strength in [0,1], whenever the latest RSI is in
\* [0,100] (or undefined).
C10_SignalsInRange ==
    \A name \in DOMAIN signals :
        /\ signals[name].signal \in {"BUY", "SELL", "NEUTRAL"}
        /\ RLe(RInt(0), signals[name].strength)
        /\ RLe(signals[name].strength, RInt(1))

\* RSI 0 and RSI 100: the two strengths that reach 1
C10_Witness ==
    /\ signals # <<>>
    /\ signals["RSI"].strength = RInt(1)
    /\ signals["RSI"].signal = "SELL"
    /\ signals["MACD"].signal = "BUY"
    /\ signals["Moving Average"].signal = "NEUTRAL"

\* the indicators that are undefined (NaN) where the signal rule reads them
Undefined(data) ==
    LET latest == data[Len(data)]
        previous == data[Len(data) - 1]
    IN  {name \in {"RSI", "MACD", "Moving Average"} :
            CASE name = "RSI" -> IsNaN(latest.RSI)
              [] name = "MACD" ->
                    \/ IsNaN(latest.MACD) \/ IsNaN(latest.MACD_signal)
                    \/ IsNaN(previous.MACD) \/ IsNaN(previous.MACD_signal)
              [] name = "Moving Average" -> IsNaN(latest.MA20) \/ IsNaN(latest.MA50)}

\* C11: an indicator that is undefined on the latest bar (for MACD: on the
\* latest or the previous bar) has no Signal among the signals returned, so
\* it is neither classified BUY, SELL or NEUTRAL nor counted by the technical
\* strategy, which counts len(signals).
C11_UndefinedYieldsNoSignal ==
    signals # <<>> => \A name \in Undefined(technical_data) : name \notin DOMAIN signals

\* the difference MACD - signal line of a bar is above, at or below zero; none
\* of the three when one of the two is undefined
MacdAbove(row) == FGt(row.MACD, row.MACD_signal)
MacdBelow(row) == FLt(row.MACD, row.MACD_signal)
MacdLevel(row) == row.MACD = row.MACD_signal /\ ~IsNaN(row.MACD)

\* C22: the MACD Signal is BUY with strength 0.8 exactly when MACD was at or
\* below its signal line on the previous bar and is above it on the latest,
\* SELL with strength 0.8 exactly when it was at or above and is below, and
\* NEUTRAL with strength 0.5 in every other case, in particular when MACD is
\* above its signal line on both bars.
C22_MacdSignalIsCrossover ==
    signals # <<>> =>
        LET latest == technical_data[Len(technical_data)]
            previous == technical_data[Len(technical_data) - 1]
            up == (MacdBelow(previous) \/ MacdLevel(previous)) /\ MacdAbove(latest)
            down == (MacdAbove(previous) \/ MacdLevel(previous)) /\ MacdBelow(latest)
        IN  /\ signals["MACD"] = Signal("BUY", Rat(4, 5)) <=> up
            /\ signals["MACD"] = Signal("SELL", Rat(4, 5)) <=> down
            /\ signals["MACD"] = Signal("NEUTRAL", Rat(1, 2)) <=> ~up /\ ~down
            /\ (MacdAbove(previous) /\ MacdAbove(latest))
                    => signals["MACD"].signal = "NEUTRAL"

\* MACD 1 over a signal line of 0 on both bars: NEUTRAL
C22_Witness ==
    /\ signals # <<>>
    /\ technical_data[1].MACD = RInt(1) /\ technical_data[1].MACD_signal = RInt(0)
    /\ technical_data[2].MACD = RInt(1) /\ technical_data[2].MACD_signal = RInt(0)
    /\ signals["MACD"] = Signal("NEUTRAL", Rat(1, 2))

(***************************************************************************)
(* Opportunity Scanner (src/opportunities/opportunity_detector.py)         *)
(***************************************************************************)
\* lines 22-28
Watchlist ==
    <<"AAPL", "MSFT", "GOOGL", "AMZN", "TSLA", "META", "NVDA", "NFLX",
      "AMD", "INTC", "CRM", "ORCL", "IBM", "PYPL", "ADBE", "NOW",
      "JPM", "BAC", "WFC", "GS", "MS", "C", "V", "MA",
      "JNJ", "PFE", "UNH", "ABBV", "MRK", "LLY", "TMO", "ABT",
      "XOM", "CVX", "COP", "SLB", "OXY", "KMI", "EOG", "PXD">>

\* line 305: symbols_to_scan[:20]
ScanLimit == 20
\* lines 303-305 without the slice
symbols_to_scan_Whole == Watchlist

symbols_to_scan ==
    SubSeq(Watchlist, 1, IF Len(Watchlist) < ScanLimit THEN Len(Watchlist) ELSE ScanLimit)

ScanTypes == {"Technical Signals", "Value Stocks", "Growth Stocks", "Momentum Stocks"}

\* a dict is a function on its keys; a value is a float, Inf, or None
None == <<>>
Inf == <<1, 0>>
Get(dict, key, default) == IF key \in DOMAIN dict THEN dict[key] ELSE default
Truthy(x) == x # None /\ x # RInt(0)

Opportunity(symbol, strategy, signal_strength, price) ==
    [symbol |-> symbol, strategy |-> strategy,
     signal_strength |-> signal_strength, price |-> price]

\* lines 400-423 with every signal that is not a SELL counted as a BUY
scan_technical_signals_CountsNonSell(symbol, data, stock_info) ==
    LET sigs == get_technical_signals(data)
        latest == data[Len(data)]
        buy_signals == Cardinality({n \in DOMAIN sigs : sigs[n].signal # "SELL"})
        total_signals == Cardinality(DOMAIN sigs)
        signal_strength == IF total_signals > 0 THEN Rat(buy_signals, total_signals)
                           ELSE RInt(0)
    IN  IF RLe(Rat(3, 5), signal_strength)
        THEN <<Opportunity(symbol, "Technical", signal_strength, latest.Close)>>
        ELSE <<>>

\* lines 400-423; the result is <<>> for None and <<opportunity>> otherwise
scan_technical_signals(symbol, data, stock_info) ==
    LET sigs == get_technical_signals(data)
        latest == data[Len(data)]
        buy_signals == Cardinality({n \in DOMAIN sigs : sigs[n].signal = "BUY"})
        total_signals == Cardinality(DOMAIN sigs)
        signal_strength == IF total_signals > 0 THEN Rat(buy_signals, total_signals)
                           ELSE RInt(0)
    IN  IF RLe(Rat(3, 5), signal_strength)
        THEN <<Opportunity(symbol, "Technical", signal_strength, latest.Close)>>
        ELSE <<>>

\* lines 425-448 without the floor of 0.5 under the strength
scan_value_stocks_NoFloor(symbol, stock_info) ==
    LET pe_ratio == Get(stock_info, "pe_ratio", Inf)
        pb_ratio == Get(stock_info, "price_to_book", Inf)
    IN  IF Truthy(pe_ratio) /\ FLt(pe_ratio, RInt(15))
            /\ Truthy(pb_ratio) /\ FLt(pb_ratio, RInt(2))
        THEN LET signal_strength ==
                    RSub(RSub(RInt(1),
                              RMul(RMin(RDiv(pe_ratio, RInt(15)), RInt(1)), Rat(1, 2))),
                         RMul(RMin(RDiv(pb_ratio, RInt(2)), RInt(1)), Rat(1, 2)))
             IN  <<Opportunity(symbol, "Value", signal_strength,
                               Get(stock_info, "current_price", RInt(0)))>>
        ELSE <<>>

\* lines 425-448
scan_value_stocks(symbol, stock_info) ==
    LET pe_ratio == Get(stock_info, "pe_ratio", Inf)
        pb_ratio == Get(stock_info, "price_to_book", Inf)
    IN  IF Truthy(pe_ratio) /\ FLt(pe_ratio, RInt(15))
            /\ Truthy(pb_ratio) /\ FLt(pb_ratio, RInt(2))
        THEN LET signal_strength ==
                    RSub(RSub(RInt(1),
                              RMul(RMin(RDiv(pe_ratio, RInt(15)), RInt(1)), Rat(1, 2))),
                         RMul(RMin(RDiv(pb_ratio, RInt(2)), RInt(1)), Rat(1, 2)))
             IN  <<Opportunity(symbol, "Value", RMax(Rat(1, 2), signal_strength),
                               Get(stock_info, "current_price", RInt(0)))>>
        ELSE <<>>

\* lines 450-472
scan_growth_stocks(symbol, stock_info) ==
    LET revenue_growth == Get(stock_info, "revenue_growth", RInt(0))
        profit_margin == Get(stock_info, "profit_margins", RInt(0))
    IN  IF Truthy(revenue_growth) /\ FGt(revenue_growth, Rat(15, 100))
            /\ Truthy(profit_margin) /\ FGt(profit_margin, Rat(1, 10))
        THEN LET signal_strength ==
                    RAdd(RMul(RMin(RMul(revenue_growth, RInt(2)), RInt(1)), Rat(7, 10)),
                         RMul(RMin(RMul(profit_margin, RInt(5)), RInt(1)), Rat(3, 10)))
             IN  <<Opportunity(symbol, "Growth", RMax(Rat(1, 2), signal_strength),
                               Get(stock_info, "current_price", RInt(0)))>>
        ELSE <<>>

\* the sum of the Volume column over rows lo..hi
RECURSIVE SumVolume(_, _, _)
SumVolume(rows, lo, hi) ==
    IF lo = hi THEN rows[lo].Volume
    ELSE LET mid == (lo + hi) \div 2
             left == SumVolume(rows, lo, mid)
             right == SumVolume(rows, mid + 1, hi)
         IN  RAdd(left, right)

\* lines 474-502
scan_momentum_stocks(symbol, data, stock_info) ==
    IF Len(data) < 20 THEN <<>>
    ELSE
        LET latest == data[Len(data)]
            twenty_days_ago == data[Len(data) - 19]
            price_momentum ==
                RMul(RDiv(RSub(latest.Close, twenty_days_ago.Close), twenty_days_ago.Close),
                     RInt(100))
            mean20 == RDiv(SumVolume(data, Len(data) - 19, Len(data)), RInt(20))
            volume_momentum == RDiv(latest.Volume, mean20)
        IN  IF FGt(price_momentum, RInt(10)) /\ FGt(volume_momentum, Rat(12, 10))
            THEN LET signal_strength ==
                        RAdd(RMul(RMin(RDiv(price_momentum, RInt(20)), RInt(1)), Rat(7, 10)),
                             RMul(RMin(RDiv(volume_momentum, RInt(2)), RInt(1)), Rat(3, 10)))
                 IN  <<Opportunity(symbol, "Momentum", RMax(Rat(1, 2), signal_strength),
                                   latest.Close)>>
            ELSE <<>>

\* line 330 without the comparison with the threshold
Retained_NoThreshold(opportunity, filt) == opportunity # <<>>

\* line 330: the final filter
Retained(opportunity, filt) ==
    /\ opportunity # <<>>
    /\ FGe(opportunity[1].signal_strength, Get(filt, "min_signal_strength", Rat(1, 2)))

\* lines 318-328: the strategy of the scan type; raises IndexError for the
\* technical strategy on a frame of one row
StrategyRaises(type, data) == type = "Technical Signals" /\ Len(data) < 2
Strategy(type, symbol, data, stock_info) ==
    CASE type = "Technical Signals" -> scan_technical_signals(symbol, data, stock_info)
      [] type = "Value Stocks"      -> scan_value_stocks(symbol, stock_info)
      [] type = "Growth Stocks"     -> scan_growth_stocks(symbol, stock_info)
      [] type = "Momentum Stocks"   -> scan_momentum_stocks(symbol, data, stock_info)
      [] OTHER                      -> <<>>

\* lines 306-331 for one symbol: what the body of the loop comes to, given
\* what the provider answers (m)
ScanSymbol(type, filt, symbol, m) ==
    IF m.fetch = "raises" THEN [kind |-> "raised", opportunity |-> <<>>]
    ELSE IF m.bars = <<>> THEN [kind |-> "empty", opportunity |-> <<>>]
    ELSE IF m.indicators = "raises" \/ m.info_call = "raises"
             \/ StrategyRaises(type, m.bars)
    THEN [kind |-> "raised", opportunity |-> <<>>]
    ELSE LET opportunity == Strategy(type, symbol, m.bars, m.info)
         IN  IF Retained(opportunity, filt)
             THEN [kind |-> "opportunity", opportunity |-> opportunity]
             ELSE [kind |-> "none", opportunity |-> <<>>]

(***************************************************************************)
(* What the data provider can answer for a symbol: get_stock_data raises   *)
(* or returns bars (none, one, twenty), the indicator library raises or    *)
(* adds its columns, get_stock_info raises or returns a dict.              *)
(***************************************************************************)
QuietRow   == Row(RInt(10), RInt(1), RInt(50), RInt(0), RInt(0), RInt(10), RInt(10))
BullRow    == Row(RInt(12), RInt(3), RInt(20), RInt(1), RInt(0), RInt(11), RInt(10))
PartialRow == Row(Rat(23, 2), RInt(2), RInt(20), RInt(1), RInt(0), NaN, NaN)

Bars20(latest) == [i \in 1..20 |-> IF i = 20 THEN latest ELSE QuietRow]

Info(pe, pb, growth, margin, price) ==
    [pe_ratio |-> pe, price_to_book |-> pb, revenue_growth |-> growth,
     profit_margins |-> margin, current_price |-> price]

Answer(fetch, bars, indicators, info_call, info) ==
    [fetch |-> fetch, bars |-> bars, indicators |-> indicators,
     info_call |-> info_call, info |-> info]

MarketCases ==
    {"no data", "fetch raises", "indicators raise", "one bar", "bullish",
     "partial", "quiet", "negative book", "info raises", "info empty"}

CaseData(case) ==
    CASE case = "no data" -> Answer("ok", <<>>, "ok", "ok", <<>>)
      [] case = "fetch raises" -> Answer("raises", <<>>, "ok", "ok", <<>>)
      [] case = "indicators raise" ->
            Answer("ok", Bars20(BullRow), "raises", "ok",
                   Info(RInt(3), RInt(1), Rat(1, 5), Rat(3, 25), RInt(12)))
      [] case = "one bar" ->
            Answer("ok", <<BullRow>>, "ok", "ok",
                   Info(RInt(3), RInt(1), Rat(1, 5), Rat(3, 25), RInt(12)))
      [] case = "bullish" ->
            Answer("ok", Bars20(BullRow), "ok", "ok",
                   Info(RInt(3), RInt(1), Rat(1, 5), Rat(3, 25), RInt(12)))
      [] case = "partial" ->
            Answer("ok", Bars20(PartialRow), "ok", "ok",
                   Info(RInt(10), RInt(1), Rat(3, 5), Rat(3, 10), Rat(23, 2)))
      [] case = "quiet" ->
            Answer("ok", Bars20(QuietRow), "ok", "ok",
                   Info(None, RInt(3), Rat(1, 10), RInt(0), RInt(10)))
      [] case = "negative book" ->
            Answer("ok", Bars20(QuietRow), "ok", "ok",
                   Info(RInt(10), RInt(-5), RInt(-1), Rat(1, 5), RInt(10)))
      [] case = "info raises" -> Answer("ok", Bars20(BullRow), "ok", "raises", <<>>)
      [] case = "info empty" -> Answer("ok", Bars20(BullRow), "ok", "ok", <<>>)

Provider(symbol) ==
    IF symbol \in DOMAIN market THEN CaseData(market[symbol]) ELSE CaseData("no data")

\* what the provider answers for the first symbol behind the scan limit
BeyondCases == {"no data", "bullish"}

\* filter_sidebar (src/ui/components.py 279-285) or a caller's own dict
FilterChoices ==
    {<<>>} \cup {[min_signal_strength |-> v] : v \in {RInt(0), Rat(1, 2), Rat(7, 10), RInt(1)}}

InitScan ==
    /\ connected = FALSE /\ trades = <<>> /\ positions = EmptyFrame /\ lastOp = "none" /\ quote = <<>>
    /\ technical_data = <<>> /\ signals = <<>> /\ StrategyIdle
    /\ \E leading \in [{Watchlist[i] : i \in 1..MaxVaried} -> MarketCases],
          beyond \in BeyondCases :
            market = leading @@ (Watchlist[ScanLimit + 1] :> beyond)
    /\ scan_type = "" /\ filters = <<>> /\ scanIdx = 0
    /\ opportunities = <<>> /\ warnings = <<>> /\ fetched = {} /\ scanStatus = "idle"
    /\ ServicesIdle

\* lines 298-303: a scan is started
RunScan ==
    /\ scanStatus # "running"
    /\ \E type \in ScanTypes, filt \in FilterChoices :
        /\ scan_type' = type
        /\ filters' = filt
    /\ scanIdx' = 1
    /\ opportunities' = <<>>
    /\ warnings' = <<>>
    /\ fetched' = {}
    /\ scanStatus' = "running"
    /\ UNCHANGED <<serviceVars, ledgerVars, signalVars, market>>

\* lines 305-335 with an exception of the loop body leaving the scan
ScanStep_NoTryExcept ==
    /\ scanStatus = "running"
    /\ scanIdx <= Len(symbols_to_scan)
    /\ LET symbol == symbols_to_scan[scanIdx]
           out == ScanSymbol(scan_type, filters, symbol, Provider(symbol))
       IN  /\ fetched' = fetched \cup {symbol}
           /\ IF out.kind = "raised"
              THEN /\ scanStatus' = "raised"
                   /\ UNCHANGED <<opportunities, warnings>>
              ELSE /\ opportunities' = opportunities \o out.opportunity
                   /\ UNCHANGED <<warnings, scanStatus>>
    /\ scanIdx' = scanIdx + 1
    /\ UNCHANGED <<serviceVars, ledgerVars, signalVars, market, scan_type, filters>>

\* lines 305-335 with a new opportunity put in front of the list
ScanStep_Prepend ==
    /\ scanStatus = "running"
    /\ scanIdx <= Len(symbols_to_scan)
    /\ LET symbol == symbols_to_scan[scanIdx]
           out == ScanSymbol(scan_type, filters, symbol, Provider(symbol))
       IN  /\ fetched' = fetched \cup {symbol}
           /\ IF out.kind = "raised"
              THEN /\ warnings' = Append(warnings, symbol)
                   /\ UNCHANGED opportunities
              ELSE /\ opportunities' = out.opportunity \o opportunities
                   /\ UNCHANGED warnings
    /\ scanIdx' = scanIdx + 1
    /\ UNCHANGED <<serviceVars, ledgerVars, signalVars, market, scan_type, filters, scanStatus>>

\* lines 305-335: one turn of the loop; an exception of the body is caught,
\* warned about, and the loop goes on
ScanStep ==
    /\ scanStatus = "running"
    /\ scanIdx <= Len(symbols_to_scan)
    /\ LET symbol == symbols_to_scan[scanIdx]
           out == ScanSymbol(scan_type, filters, symbol, Provider(symbol))
       IN  /\ fetched' = fetched \cup {symbol}
           /\ IF out.kind = "raised"
              THEN /\ warnings' = Append(warnings, symbol)
                   /\ UNCHANGED opportunities
              ELSE /\ opportunities' = opportunities \o out.opportunity
                   /\ UNCHANGED warnings
    /\ scanIdx' = scanIdx + 1
    /\ UNCHANGED <<serviceVars, ledgerVars, signalVars, market, scan_type, filters, scanStatus>>

\* line 337
ScanReturn ==
    /\ scanStatus = "running"
    /\ scanIdx > Len(symbols_to_scan)
    /\ scanStatus' = "returned"
    /\ UNCHANGED <<serviceVars, ledgerVars, signalVars, market, scan_type, filters, scanIdx,
                   opportunities, warnings, fetched>>

NextScan == RunScan \/ ScanStep \/ ScanReturn

SpecScan == InitScan /\ [][NextScan]_vars

(***************************************************************************)
(* Properties of the scanner                                               *)
(***************************************************************************)
InResult(symbol) == \E j \in DOMAIN opportunities : opportunities[j].symbol = symbol

\* C7: a scan never raises; when it returns it has gone through every one
\* of the symbols to scan, the result holds the Opportunity of each symbol
\* that qualifies, and none for a symbol whose data was empty or whose
\* evaluation failed.
C7_ScanNeverAborts ==
    /\ scanStatus # "raised"
    /\ scanStatus = "returned" =>
        /\ fetched = {symbols_to_scan[i] : i \in DOMAIN symbols_to_scan}
        /\ \A i \in DOMAIN symbols_to_scan :
            LET symbol == symbols_to_scan[i]
                out == ScanSymbol(scan_type, filters, symbol, Provider(symbol))
            IN  /\ out.kind = "opportunity" =>
                    \E j \in DOMAIN opportunities : opportunities[j] = out.opportunity[1]
                /\ out.kind \in {"raised", "empty"} => ~InResult(symbol)

\* the first symbol failed with an exception, the second one is in the result
C7_Witness ==
    /\ scanStatus = "returned"
    /\ warnings = <<Watchlist[1]>>
    /\ ~InResult(Watchlist[1])
    /\ InResult(Watchlist[2])

\* C8: no Opportunity collected by a scan has a signal_strength below the
\* min_signal_strength of the filters, 0.5 when the filters have none.
C8_ResultAboveThreshold ==
    \A j \in DOMAIN opportunities :
        RLe(Get(filters, "min_signal_strength", Rat(1, 2)), opportunities[j].signal_strength)

\* a value scan with threshold 0.7 that has dropped the first symbol
\* (strength 0.65) and kept the second
C8_Witness ==
    /\ scanStatus = "returned"
    /\ scan_type = "Value Stocks"
    /\ filters # <<>>
    /\ filters["min_signal_strength"] = Rat(7, 10)
    /\ LET produced == Strategy(scan_type, Watchlist[1], Provider(Watchlist[1]).bars,
                                Provider(Watchlist[1]).info)
       IN  /\ produced # <<>>
           /\ produced[1].signal_strength = Rat(13, 20)
    /\ ~InResult(Watchlist[1])
    /\ InResult(Watchlist[2])

\* C9: every Opportunity has 0 <= signal_strength <= 1.
C9_StrengthInUnitInterval ==
    \A j \in DOMAIN opportunities :
        /\ RLe(RInt(0), opportunities[j].signal_strength)
        /\ RLe(opportunities[j].signal_strength, RInt(1))

\* where a symbol stands in the watchlist
Place(symbol) == CHOOSE i \in DOMAIN Watchlist : Watchlist[i] = symbol

\* C27: the Opportunities of a scan stand in the order of their symbols in
\* the watchlist, and no symbol has more than one.
C27_ResultInWatchlistOrder ==
    \A j \in DOMAIN opportunities, k \in DOMAIN opportunities :
        j < k => Place(opportunities[j].symbol) < Place(opportunities[k].symbol)

\* a returned scan with the Opportunities of the first two symbols
C27_Witness ==
    /\ scanStatus = "returned"
    /\ Len(opportunities) = 2
    /\ opportunities[1].symbol = Watchlist[1]
    /\ opportunities[2].symbol = Watchlist[2]

\* C30: a symbol at place 21 or later of the watchlist is never asked of the
\* provider and never in the result, whatever the provider would answer.
C30_OnlyFirstTwentyScanned ==
    \A i \in 21..Len(Watchlist) :
        Watchlist[i] \notin fetched /\ ~InResult(Watchlist[i])

\* a returned technical scan of 20 symbols; the 21st would have qualified
C30_Witness ==
    /\ scanStatus = "returned"
    /\ scan_type = "Technical Signals"
    /\ Cardinality(fetched) = 20
    /\ market[Watchlist[21]] = "bullish"
    /\ Strategy(scan_type, Watchlist[21], Provider(Watchlist[21]).bars,
                Provider(Watchlist[21]).info) # <<>>
    /\ Watchlist[21] \notin fetched
    /\ ~InResult(Watchlist[21])

(***************************************************************************)
(* A strategy called alone, on the indicator frame or the fundamentals     *)
(* that Init has drawn.                                                    *)
(***************************************************************************)
Returned(call, value) == [call |-> call, value |-> value]

\* line 319
ScanTechnicalSignals ==
    /\ technical_data # <<>>
    /\ strategy_out' = Returned("Technical",
                            scan_technical_signals("AAPL", technical_data, fundamentals))
    /\ UNCHANGED <<ledgerVars, technical_data, signals, fundamentals, scanVars, serviceVars>>

NextTechnical == ScanTechnicalSignals

SpecTechnical == InitSignals /\ [][NextTechnical]_vars

\* the signals of a frame that are BUY, among those the classifier returned
BuyFraction(data) ==
    LET classified == get_technical_signals(data)
        buys == {name \in DOMAIN classified : classified[name].signal = "BUY"}
    IN  Rat(Cardinality(buys), Cardinality(DOMAIN classified))

PeValues == {None, NaN, RInt(0), RInt(-6), RInt(3), RInt(10), RInt(14), RInt(15), RInt(20)}
PbValues == {None, NaN, RInt(0), RInt(-5), Rat(1, 2), RInt(1), RInt(2), RInt(3)}

\* get_stock_info returns {} when the vendor fails and there is no mock
StockInfos ==
    {<<>>} \cup {[pe_ratio |-> pe, price_to_book |-> pb, current_price |-> RInt(10)] :
                    pe \in PeValues, pb \in PbValues}

InitValue ==
    /\ connected = FALSE /\ trades = <<>> /\ positions = EmptyFrame /\ lastOp = "none" /\ quote = <<>>
    /\ technical_data = <<>> /\ signals = <<>>
    /\ fundamentals \in StockInfos
    /\ strategy_out = Returned("none", <<>>)
    /\ ScanIdle /\ ServicesIdle

\* line 321
ScanValueStocks ==
    /\ strategy_out' = Returned("Value", scan_value_stocks("AAPL", fundamentals))
    /\ UNCHANGED <<ledgerVars, technical_data, signals, fundamentals, scanVars, serviceVars>>

NextValue == ScanValueStocks

SpecValue == InitValue /\ [][NextValue]_vars

\* the number a fundamentals dict holds for a key, if it holds one
HasNumber(dict, key) == key \in DOMAIN dict /\ dict[key] # None /\ ~IsNaN(dict[key])
\* the same, the 0 that stands for a missing vendor field excepted
Reported(dict, key) == HasNumber(dict, key) /\ dict[key] # RInt(0)

ValueStrength(pe, pb) ==
    RMax(Rat(1, 2),
         RSub(RSub(RInt(1), RMul(Rat(1, 2), RMin(RDiv(pe, RInt(15)), RInt(1)))),
              RMul(Rat(1, 2), RMin(RDiv(pb, RInt(2)), RInt(1)))))

\* C24 as stated: the value strategy returns an Opportunity exactly when
\* the dict holds a trailing P/E below 15 and a price/book below 2.
C24_ValueExactlyBelowLimits ==
    strategy_out.call = "Value" =>
        (strategy_out.value # <<>> <=>
            /\ HasNumber(fundamentals, "pe_ratio")
            /\ RLt(fundamentals.pe_ratio, RInt(15))
            /\ HasNumber(fundamentals, "price_to_book")
            /\ RLt(fundamentals.price_to_book, RInt(2)))

\* C24: the value strategy returns an Opportunity exactly when trailing P/E
\* and price/book are both reported (present, not None, not 0), P/E < 15 and
\* price/book < 2; its signal_strength is
\* max(0.5, 1 - 0.5*min(PE/15,1) - 0.5*min(PB/2,1)), never below 0.5, and
\* 0.5 for PE = 10, PB = 1.
C24_ValueNeedsReportedRatios ==
    strategy_out.call = "Value" =>
        /\ strategy_out.value # <<>> <=>
            /\ Reported(fundamentals, "pe_ratio")
            /\ RLt(fundamentals.pe_ratio, RInt(15))
            /\ Reported(fundamentals, "price_to_book")
            /\ RLt(fundamentals.price_to_book, RInt(2))
        /\ strategy_out.value # <<>> =>
            /\ strategy_out.value[1].signal_strength =
                    ValueStrength(fundamentals.pe_ratio, fundamentals.price_to_book)
            /\ RLe(Rat(1, 2), strategy_out.value[1].signal_strength)
            /\ (fundamentals.pe_ratio = RInt(10) /\ fundamentals.price_to_book = RInt(1))
                    => strategy_out.value[1].signal_strength = Rat(1, 2)

\* PE = 10 and PB = 1: 1 - 1/3 - 1/4 is below the floor, the strength is 0.5
C24_Witness ==
    /\ strategy_out.call = "Value"
    /\ fundamentals # <<>>
    /\ fundamentals.pe_ratio = RInt(10) /\ fundamentals.price_to_book = RInt(1)
    /\ strategy_out.value # <<>>
    /\ strategy_out.value[1].signal_strength = Rat(1, 2)

(***************************************************************************)
(* Market Data Provider (src/data/market_data.py).  Time is counted in     *)
(* seconds.  A frame of bars is a record that says where the bars came     *)
(* from, for which symbol, how many rows there are and when they were      *)
(* obtained; pd.DataFrame() is the frame of no source and no rows.         *)
(***************************************************************************)
\* line 23
rate_limit_delay == 1
\* lines 27 and 75: @st.cache_data(ttl=900)
ttl_stock == 900
\* line 88: @st.cache_data(ttl=3600)
ttl_indices == 3600

Frame(source, symbol, rows, obtained) ==
    [source |-> source, symbol |-> symbol, rows |-> rows, obtained |-> obtained]
NoFrame == Frame("none", "", 0, 0)

\* lines 95-101
indices == <<"S&P 500", "NASDAQ", "Dow Jones", "Russell 2000", "VIX">>

Periods == {"5d"}
SymbolLists == {<<"AAPL">>, <<"MSFT", "AAPL">>}

\* what ticker.history does: it returns bars, returns an empty frame, or
\* raises; the text of the exception is given by its fragments
VendorAnswer(raised, rows, text) == [raised |-> raised, rows |-> rows, text |-> text]
VendorAnswers ==
    {VendorAnswer(FALSE, 2, <<>>),
     VendorAnswer(FALSE, 0, <<>>),
     VendorAnswer(TRUE, 0, <<"429 Client Error: ", "Too Many Requests", " for url">>),
     VendorAnswer(TRUE, 0, <<"Rate limited", ". Try after a while.">>),
     VendorAnswer(TRUE, 0, <<"No timezone found, symbol may be delisted">>)}
\* seconds that one call of the vendor takes
Durations == {0, 1}
\* seconds between two uses of the provider
Elapsed == {ttl_stock - 1, ttl_stock}

\* phrase in error_msg
Contains(text, phrase) == \E i \in DOMAIN text : text[i] = phrase

\* src/data/mock_data.py lines 15-26
Days(period) ==
    CASE period = "1d" -> 1
      [] period = "5d" -> 5
      [] period = "1mo" -> 30
      [] period = "3mo" -> 90
      [] period = "6mo" -> 180
      [] OTHER -> 365

\* src/data/mock_data.py lines 12-71 called without the period, which then
\* takes its default "1y"
mock_get_stock_data_Year(symbol, period, at) == Frame("mock", symbol, Days("1y"), at)

\* src/data/mock_data.py lines 12-71: one row per day of the period
mock_get_stock_data(symbol, period, at) == Frame("mock", symbol, Days(period), at)

\* the entry of a cache of st.cache_data: valid while younger than the ttl
Valid(cache, key, ttl, time) == key \in DOMAIN cache /\ time - cache[key].stored < ttl
Put(cache, key, value, time) ==
    [k \in DOMAIN cache \cup {key} |->
        IF k = key THEN [value |-> value, stored |-> time] ELSE cache[k]]

LastTwo(seq) == IF Len(seq) > 2 THEN Tail(seq) ELSE seq

\* lines 35-40: the seconds to sleep before the vendor is called
sleep_time(time, last) ==
    LET time_since_last_call == time - last
    IN  IF time_since_last_call < rate_limit_delay
        THEN rate_limit_delay - time_since_last_call
        ELSE 0

\* the provider and the caches, as the statements of one call pass them on
Self ==
    [now |-> now, last_api_call |-> last_api_call, stock_cache |-> stock_cache,
     multi_cache |-> multi_cache, api_calls |-> api_calls,
     invocations |-> <<>>, value |-> <<>>]

Invocation(symbol, period, events, text, raised, value) ==
    [symbol |-> symbol, period |-> period, events |-> events, text |-> text,
     raised |-> raised, value |-> value]

\* lines 30-73 with a second call of the vendor after the first has failed
stock_data_body_Retry(self, symbol, period, answer, duration) ==
    LET issued == self.now + sleep_time(self.now, self.last_api_call)
        done == issued + duration
        called == [self EXCEPT !.now = done,
                               !.api_calls = LastTwo(Append(@, [at |-> issued, ok |-> ~answer.raised]))]
        rate_limited == \/ Contains(answer.text, "Too Many Requests")
                        \/ Contains(answer.text, "Rate limited")
        failed == IF rate_limited
                  THEN <<"vendor", "failed", "vendor", "failed", "rate_limit">>
                  ELSE <<"vendor", "failed", "vendor", "failed">>
    IN  IF ~answer.raised
        THEN LET data == Frame("vendor", symbol, answer.rows, done)
             IN  [called EXCEPT !.last_api_call = done,
                                !.invocations = Append(@,
                                    Invocation(symbol, period, <<"vendor">>, <<>>, FALSE, data)),
                                !.value = data]
        ELSE IF MOCK_DATA_AVAILABLE
        THEN LET data == mock_get_stock_data(symbol, period, done)
             IN  [called EXCEPT !.invocations = Append(@,
                                    Invocation(symbol, period, Append(failed, "mock"),
                                               answer.text, FALSE, data)),
                                !.value = data]
        ELSE [called EXCEPT !.invocations = Append(@,
                                Invocation(symbol, period, Append(failed, "empty"),
                                           answer.text, FALSE, NoFrame)),
                            !.value = NoFrame]

\* lines 30-73: the body of get_stock_data, which runs when the cache has no
\* valid entry; the vendor answers after 'duration' seconds
stock_data_body(self, symbol, period, answer, duration) ==
    LET issued == self.now + sleep_time(self.now, self.last_api_call)
        done == issued + duration
        called == [self EXCEPT !.now = done,
                               !.api_calls = LastTwo(Append(@, [at |-> issued, ok |-> ~answer.raised]))]
        rate_limited == \/ Contains(answer.text, "Too Many Requests")
                        \/ Contains(answer.text, "Rate limited")
        failed == IF rate_limited THEN <<"vendor", "failed", "rate_limit">>
                  ELSE <<"vendor", "failed">>
    IN  IF ~answer.raised
        THEN LET data == Frame("vendor", symbol, answer.rows, done)
             IN  [called EXCEPT !.last_api_call = done,
                                !.invocations = Append(@,
                                    Invocation(symbol, period, <<"vendor">>, <<>>, FALSE, data)),
                                !.value = data]
        ELSE IF MOCK_DATA_AVAILABLE
        THEN LET data == mock_get_stock_data(symbol, period, done)
             IN  [called EXCEPT !.invocations = Append(@,
                                    Invocation(symbol, period, Append(failed, "mock"),
                                               answer.text, FALSE, data)),
                                !.value = data]
        ELSE [called EXCEPT !.invocations = Append(@,
                                Invocation(symbol, period, Append(failed, "empty"),
                                           answer.text, FALSE, NoFrame)),
                            !.value = NoFrame]

\* lines 27-28: get_stock_data behind its cache
get_stock_data(self, symbol, period, answer, duration) ==
    LET key == <<symbol, period>>
    IN  IF Valid(self.stock_cache, key, ttl_stock, self.now)
        THEN [self EXCEPT !.value = self.stock_cache[key].value]
        ELSE LET after == stock_data_body(self, symbol, period, answer, duration)
             IN  [after EXCEPT !.stock_cache = Put(@, key, after.value, after.now)]

\* lines 78-86: the loop over the symbols and the concatenation
RECURSIVE multiple_stocks_body(_, _, _, _, _)
multiple_stocks_body(self, symbols, period, answers, all_data) ==
    IF symbols = <<>>
    THEN [self EXCEPT !.value = all_data]
    ELSE LET after == get_stock_data(self, Head(symbols), period,
                                     Head(answers)[1], Head(answers)[2])
         IN  multiple_stocks_body(after, Tail(symbols), period, Tail(answers),
                                  IF after.value.rows # 0
                                  THEN Append(all_data, after.value) ELSE all_data)

\* lines 75-76: get_multiple_stocks behind its cache
get_multiple_stocks(self, symbols, period, answers) ==
    LET key == <<symbols, period>>
    IN  IF Valid(self.multi_cache, key, ttl_stock, self.now)
        THEN [self EXCEPT !.value = self.multi_cache[key].value]
        ELSE LET after == multiple_stocks_body(self, symbols, period, answers, <<>>)
             IN  [after EXCEPT !.multi_cache = Put(@, key, after.value, after.now)]

\* the provider and the caches after a call
Commit(after) ==
    /\ now' = after.now
    /\ last_api_call' = after.last_api_call
    /\ stock_cache' = after.stock_cache
    /\ multi_cache' = after.multi_cache
    /\ api_calls' = after.api_calls
    /\ invocations' = after.invocations

\* the parts of the provider's state that no call changes
MarketFixed == <<MOCK_DATA_AVAILABLE, vendor>>

MarketReady ==
    /\ last_api_call = 0
    /\ stock_cache = <<>> /\ multi_cache = <<>> /\ indices_cache = <<>>
    /\ api_calls = <<>> /\ invocations = <<>>
    /\ served = [call |-> "none", at |-> 0, frames |-> <<>>]
    /\ indexPos = 0 /\ results = {} /\ rate_limit_hit = FALSE

\* a vendor that can give every answer, at once or after a second
InitMarket ==
    /\ connected = FALSE /\ trades = <<>> /\ positions = EmptyFrame /\ lastOp = "none" /\ quote = <<>>
    /\ technical_data = <<>> /\ signals = <<>> /\ StrategyIdle
    /\ ScanIdle /\ AnalyticsIdle
    /\ now = 1
    /\ MOCK_DATA_AVAILABLE \in BOOLEAN
    /\ vendor = VendorAnswers \X Durations
    /\ MarketReady

GetStockData ==
    /\ indexPos = 0
    /\ \E symbol \in Symbols, period \in Periods, answer \in vendor :
            LET after == get_stock_data(Self, symbol, period, answer[1], answer[2])
            IN  /\ Commit(after)
                /\ served' = [call |-> "get_stock_data", at |-> now,
                              frames |-> <<after.value>>]
    /\ UNCHANGED <<MarketFixed, indices_cache, indexPos, results, rate_limit_hit,
                   ledgerVars, signalVars, scanVars, analyticsVars>>

GetMultipleStocks ==
    /\ indexPos = 0
    /\ \E symbols \in SymbolLists, period \in Periods :
        \E answers \in [1..Len(symbols) -> vendor] :
            LET after == get_multiple_stocks(Self, symbols, period, answers)
            IN  /\ Commit(after)
                /\ served' = [call |-> "get_multiple_stocks", at |-> now,
                              frames |-> after.value]
    /\ UNCHANGED <<MarketFixed, indices_cache, indexPos, results, rate_limit_hit,
                   ledgerVars, signalVars, scanVars, analyticsVars>>

\* lines 88-104: get_market_indices behind its cache; a miss starts the loop
GetMarketIndices ==
    /\ indexPos = 0
    /\ IF Valid(indices_cache, "indices", ttl_indices, now)
       THEN /\ served' = [call |-> "get_market_indices", at |-> now, frames |-> <<>>]
            /\ UNCHANGED <<indexPos, results, rate_limit_hit>>
       ELSE /\ indexPos' = 1 /\ results' = {} /\ rate_limit_hit' = FALSE
            /\ UNCHANGED served
    /\ invocations' = <<>>
    /\ UNCHANGED <<now, last_api_call, MarketFixed, stock_cache, multi_cache,
                   indices_cache, api_calls, ledgerVars, signalVars, scanVars, analyticsVars>>

\* lines 106-146: one pass of the loop over the indices
IndexStep ==
    /\ indexPos \in 1..Len(indices)
    /\ \E answer \in vendor :
        LET issued == now + sleep_time(now, last_api_call)
            done == issued + answer[2]
        IN  /\ now' = done
            /\ api_calls' = LastTwo(Append(api_calls, [at |-> issued, ok |-> ~answer[1].raised]))
            /\ IF ~answer[1].raised
               THEN /\ last_api_call' = done
                    /\ results' = IF answer[1].rows # 0
                                  THEN results \cup {indices[indexPos]} ELSE results
                    /\ UNCHANGED rate_limit_hit
               ELSE /\ rate_limit_hit' =
                            (\/ rate_limit_hit
                             \/ Contains(answer[1].text, "Too Many Requests")
                             \/ Contains(answer[1].text, "Rate limited"))
                    /\ UNCHANGED <<last_api_call, results>>
    /\ indexPos' = indexPos + 1
    /\ UNCHANGED <<MarketFixed, stock_cache, multi_cache, indices_cache,
                   invocations, served, ledgerVars, signalVars, scanVars, analyticsVars>>

\* lines 148-163: the loop is over; the mock indices stand in for the
\* results when there are none or the rate limit was hit
IndicesReturn ==
    /\ indexPos = Len(indices) + 1
    /\ LET value == IF (results = {} \/ rate_limit_hit) /\ MOCK_DATA_AVAILABLE
                    THEN {indices[i] : i \in DOMAIN indices} ELSE results
       IN  indices_cache' = Put(indices_cache, "indices", value, now)
    /\ served' = [call |-> "get_market_indices", at |-> now, frames |-> <<>>]
    /\ indexPos' = 0
    /\ UNCHANGED <<now, last_api_call, MarketFixed, stock_cache, multi_cache,
                   api_calls, invocations, results, rate_limit_hit,
                   ledgerVars, signalVars, scanVars, analyticsVars>>

NextMarket == GetStockData \/ GetMultipleStocks

SpecMarket == InitMarket /\ [][NextMarket]_vars

(***************************************************************************)
(* The rate governor: get_stock_data and the index loop, which share       *)
(* last_api_call, with a vendor that answers with bars after a second,     *)
(* with an empty frame or a rate-limit error at once, or with another      *)
(* error after a second.                                                   *)
(***************************************************************************)
InitGovernor ==
    /\ connected = FALSE /\ trades = <<>> /\ positions = EmptyFrame /\ lastOp = "none" /\ quote = <<>>
    /\ technical_data = <<>> /\ signals = <<>> /\ StrategyIdle
    /\ ScanIdle /\ AnalyticsIdle
    /\ now = 1
    /\ MOCK_DATA_AVAILABLE \in BOOLEAN
    /\ vendor = {<<VendorAnswer(FALSE, 2, <<>>), 1>>,
                 <<VendorAnswer(FALSE, 0, <<>>), 0>>,
                 <<VendorAnswer(TRUE, 0, <<"Rate limited", ". Try after a while.">>), 0>>,
                 <<VendorAnswer(TRUE, 0, <<"No timezone found, symbol may be delisted">>), 1>>}
    /\ MarketReady

NextGovernor == GetStockData \/ GetMarketIndices \/ IndexStep \/ IndicesReturn

SpecGovernor == InitGovernor /\ [][NextGovernor]_vars

(***************************************************************************)
(* The caches over time: a vendor that answers at once, with bars or with  *)
(* an error, and a user who comes back when an entry is about to expire or *)
(* has just expired.                                                       *)
(***************************************************************************)
InitCache ==
    /\ connected = FALSE /\ trades = <<>> /\ positions = EmptyFrame /\ lastOp = "none" /\ quote = <<>>
    /\ technical_data = <<>> /\ signals = <<>> /\ StrategyIdle
    /\ ScanIdle /\ AnalyticsIdle
    /\ now = 1
    /\ MOCK_DATA_AVAILABLE = TRUE
    /\ vendor = {<<VendorAnswer(FALSE, 2, <<>>), 0>>,
                 <<VendorAnswer(TRUE, 0, <<"No timezone found, symbol may be delisted">>), 0>>}
    /\ MarketReady

\* time passes between two uses of the provider
Tick ==
    /\ indexPos = 0
    /\ \E d \in Elapsed : now + d <= MaxClock /\ now' = now + d
    /\ UNCHANGED <<last_api_call, MarketFixed, stock_cache, multi_cache,
                   indices_cache, api_calls, invocations, served,
                   indexPos, results, rate_limit_hit, ledgerVars, signalVars, scanVars, analyticsVars>>

NextCache == GetStockData \/ GetMultipleStocks \/ Tick

SpecCache == InitCache /\ [][NextCache]_vars

(***************************************************************************)
(* Properties of the market data provider                                  *)
(***************************************************************************)
Count(seq, x) == Cardinality({i \in DOMAIN seq : seq[i] = x})

\* C12: every run of get_stock_data's body calls the vendor at most once and
\* substitutes the synthetic series at most once, and does not call the vendor
\* again once the call has failed.
C12_OneVendorCallOneFallback ==
    \A i \in DOMAIN invocations :
        LET events == invocations[i].events
        IN  /\ Count(events, "vendor") <= 1
            /\ Count(events, "mock") <= 1
            /\ \A j \in DOMAIN events : \A k \in DOMAIN events :
                    (events[j] = "failed" /\ j < k) => events[k] # "vendor"

\* get_multiple_stocks has run the body twice: the first call of the vendor
\* was refused and the synthetic series stood in, the second gave bars
C12_Witness ==
    /\ Len(invocations) = 2
    /\ invocations[1].events = <<"vendor", "failed", "rate_limit", "mock">>
    /\ invocations[2].events = <<"vendor">>
    /\ invocations[2].value.rows > 0

\* C13: any two consecutive calls of the vendor, by get_stock_data or by the
\* index loop, are at least rate_limit_delay apart, whether the earlier one
\* succeeded or failed.  api_calls holds the last two calls.
C13_MinimumDelayBetweenCalls ==
    Len(api_calls) = 2 => api_calls[2].at - api_calls[1].at >= rate_limit_delay

\* C14: the bars that get_stock_data or get_multiple_stocks returns were
\* obtained, from the vendor or from the fallback, at most ttl_stock seconds
\* before the call.
C14_NoBarsOlderThanTTL ==
    \A i \in DOMAIN served.frames :
        served.frames[i].source # "none"
            => served.at - served.frames[i].obtained <= ttl_stock

\* C15: a run of get_stock_data's body in which the vendor call failed does
\* not raise and ends in exactly one of two ways: with the synthetic series
\* of its symbol and period when the fallback is there, with the empty frame
\* when it is not; and the rate limit is recorded only for a failure whose
\* text contains 'Too Many Requests' or 'Rate limited'.
C15_FailureEndsInFallbackOrEmpty ==
    \A i \in DOMAIN invocations :
        LET inv == invocations[i]
        IN  /\ Count(inv.events, "failed") > 0 =>
                /\ ~inv.raised
                /\ Count(inv.events, "mock") + Count(inv.events, "empty") = 1
                /\ IF MOCK_DATA_AVAILABLE
                   THEN /\ Count(inv.events, "mock") = 1
                        /\ inv.value.source = "mock"
                        /\ inv.value.symbol = inv.symbol
                        /\ inv.value.rows = Days(inv.period)
                   ELSE /\ Count(inv.events, "empty") = 1
                        /\ inv.value = NoFrame
            /\ Count(inv.events, "rate_limit") > 0 =>
                \/ Contains(inv.text, "Too Many Requests")
                \/ Contains(inv.text, "Rate limited")

\* without the fallback: one failure that is no rate limit and one that is,
\* both ending in the empty frame
C15_Witness ==
    /\ ~MOCK_DATA_AVAILABLE
    /\ Len(invocations) = 2
    /\ invocations[1].events = <<"vendor", "failed", "empty">>
    /\ invocations[2].events = <<"vendor", "failed", "rate_limit", "empty">>
    /\ Contains(invocations[2].text, "Too Many Requests")
    /\ served.frames = <<>>

(***************************************************************************)
(* Performance Analytics (src/portfolio/portfolio_manager.py 250-294 and   *)
(* src/portfolio/reports.py 488-522).  A float that comes out of a square  *)
(* root is kept as its sign and its square; 'finite' is FALSE for NaN.  A  *)
(* metric that is shown as "N/A" is <<>>, one that has a value v is <<v>>. *)
(***************************************************************************)
Surd(sign, square) == [finite |-> TRUE, sign |-> sign, square |-> square]
NotFinite == [finite |-> FALSE, sign |-> 0, square |-> RInt(0)]
Zero == Surd(0, RInt(0))
Sign(x) == IF x[1] > 0 THEN 1 ELSE IF x[1] < 0 THEN -1 ELSE 0

Snapshot(total_value) == [total_value |-> total_value]
TotalValues == {1, 2, 4}

\* performance_data['total_value']
Column(frame) == [i \in DOMAIN frame |-> RInt(frame[i].total_value)]

\* Series.pct_change().dropna()
pct_change(values) ==
    [i \in 1..(Len(values) - 1) |-> RSub(RDiv(values[i + 1], values[i]), RInt(1))]

RECURSIVE RSum(_)
RSum(xs) == IF xs = <<>> THEN RInt(0) ELSE RAdd(Head(xs), RSum(Tail(xs)))

\* Series.mean() of one value or more
mean(xs) == RDiv(RSum(xs), RInt(Len(xs)))

\* the sample variance of two values or more
Variance(xs) ==
    RDiv(RSum([i \in DOMAIN xs |-> RMul(RSub(xs[i], mean(xs)), RSub(xs[i], mean(xs)))]),
         RInt(Len(xs) - 1))

\* Series.std(): NaN for fewer than two values
std(xs) == IF Len(xs) < 2 THEN NotFinite ELSE Surd(Sign(Variance(xs)), Variance(xs))

\* (mean / std) * np.sqrt(252), for std that is not 0
Annualized(m, sd) ==
    IF ~sd.finite THEN NotFinite
    ELSE Surd(Sign(m), RDiv(RMul(RInt(252), RMul(m, m)), sd.square))

\* Series.expanding().max() at row i
RECURSIVE RunningMax(_, _)
RunningMax(xs, i) == IF i = 1 THEN xs[1] ELSE RMax(RunningMax(xs, i - 1), xs[i])

\* Series.min() of one value or more
RECURSIVE SeriesMin(_)
SeriesMin(xs) == IF Len(xs) = 1 THEN xs[1] ELSE RMin(Head(xs), SeriesMin(Tail(xs)))

\* reports.py lines 488-499
calculate_total_return(frame) ==
    IF IsEmpty(frame) \/ Len(frame) < 2 THEN RInt(0)
    ELSE LET start_value == Column(frame)[1]
             end_value == Column(frame)[Len(frame)]
         IN  IF start_value = RInt(0) THEN RInt(0)
             ELSE RMul(RDiv(RSub(end_value, start_value), start_value), RInt(100))

\* reports.py lines 501-510
calculate_sharpe_ratio(frame) ==
    IF IsEmpty(frame) \/ Len(frame) < 2 THEN Zero
    ELSE LET returns == pct_change(Column(frame))
         IN  IF Len(returns) = 0 \/ (std(returns).finite /\ std(returns).sign = 0)
             THEN Zero
             ELSE Annualized(mean(returns), std(returns))

\* reports.py lines 512-522 with the maximum of the whole series for the
\* expanding maximum
calculate_max_drawdown_OverallMax(frame) ==
    IF IsEmpty(frame) THEN RInt(0)
    ELSE LET values == Column(frame)
             cumulative_returns == [i \in DOMAIN values |-> RDiv(values[i], values[1])]
             running_max == [i \in DOMAIN values |->
                                RunningMax(cumulative_returns, Len(values))]
             drawdown == [i \in DOMAIN values |->
                             RDiv(RSub(cumulative_returns[i], running_max[i]), running_max[i])]
         IN  RMul(SeriesMin(drawdown), RInt(100))

\* reports.py lines 512-522
calculate_max_drawdown(frame) ==
    IF IsEmpty(frame) THEN RInt(0)
    ELSE LET values == Column(frame)
             cumulative_returns == [i \in DOMAIN values |-> RDiv(values[i], values[1])]
             running_max == [i \in DOMAIN values |-> RunningMax(cumulative_returns, i)]
             drawdown == [i \in DOMAIN values |->
                             RDiv(RSub(cumulative_returns[i], running_max[i]), running_max[i])]
         IN  RMul(SeriesMin(drawdown), RInt(100))

\* portfolio_manager.py lines 264-265
pm_total_return(frame) ==
    RMul(RSub(RDiv(Column(frame)[Len(frame)], Column(frame)[1]), RInt(1)), RInt(100))

\* portfolio_manager.py lines 275-284; daily_return is total_value.pct_change()
\* (lines 496-498)
pm_sharpe_ratio(frame) ==
    IF Len(frame) > 1
    THEN LET daily_returns == pct_change(Column(frame))
         IN  IF Len(daily_returns) > 0
             THEN IF std(daily_returns).finite /\ std(daily_returns).sign > 0
                  THEN <<Annualized(mean(daily_returns), std(daily_returns))>>
                  ELSE <<Zero>>
             ELSE <<>>
    ELSE <<>>

\* portfolio_manager.py lines 286-294
pm_max_drawdown(frame) ==
    IF Len(frame) > 1
    THEN LET values == Column(frame)
             cumulative_returns == [i \in DOMAIN values |->
                                       RSub(RDiv(values[i], values[1]), RInt(1))]
             running_max == [i \in DOMAIN values |-> RunningMax(cumulative_returns, i)]
             drawdown == [i \in DOMAIN values |->
                             RSub(cumulative_returns[i], running_max[i])]
         IN  <<RMul(SeriesMin(drawdown), RInt(100))>>
    ELSE <<>>

Metrics(total_return, sharpe_ratio, max_drawdown) ==
    [total_return |-> total_return, sharpe_ratio |-> sharpe_ratio,
     max_drawdown |-> max_drawdown]

\* every sequence of up to MaxSnapshots snapshots of positive value
InitAnalytics ==
    /\ connected = FALSE /\ trades = <<>> /\ positions = EmptyFrame /\ lastOp = "none" /\ quote = <<>>
    /\ technical_data = <<>> /\ signals = <<>> /\ StrategyIdle
    /\ ScanIdle
    /\ now = 1 /\ MOCK_DATA_AVAILABLE = TRUE /\ vendor = {} /\ MarketReady
    /\ \E n \in 0..MaxSnapshots :
        \E values \in [1..n -> TotalValues] :
            performance_data = [i \in 1..n |-> Snapshot(values[i])]
    /\ portfolio_performance = <<>>
    /\ analytics = <<>> /\ report = <<>>

\* portfolio_manager.py lines 250-294
RenderPerformanceAnalytics ==
    /\ IsEmpty(analytics)
    /\ analytics' = IF ~IsEmpty(performance_data)
                    THEN Metrics(<<pm_total_return(performance_data)>>,
                                 pm_sharpe_ratio(performance_data),
                                 pm_max_drawdown(performance_data))
                    ELSE Metrics(<<>>, <<>>, <<>>)
    /\ UNCHANGED <<portfolio_performance, performance_data, report,
                   marketVars, ledgerVars, signalVars, scanVars>>

\* reports.py lines 162-164
CalculateReportMetrics ==
    /\ IsEmpty(report)
    /\ report' = Metrics(calculate_total_return(performance_data),
                         calculate_sharpe_ratio(performance_data),
                         calculate_max_drawdown(performance_data))
    /\ UNCHANGED <<portfolio_performance, performance_data, analytics,
                   marketVars, ledgerVars, signalVars, scanVars>>

NextAnalytics == RenderPerformanceAnalytics \/ CalculateReportMetrics

SpecAnalytics == InitAnalytics /\ [][NextAnalytics]_vars

(***************************************************************************)
(* Properties of the performance analytics                                 *)
(***************************************************************************)
\* the values never fall below a previous value
NeverFalls(frame) ==
    \A i \in DOMAIN frame : \A j \in DOMAIN frame :
        i < j => frame[i].total_value <= frame[j].total_value

\* C16: for a non-empty sequence of snapshots of positive value, the max
\* drawdown of the report generator and the max drawdown that the portfolio
\* manager computes (it shows "N/A" for a single snapshot) are <= 0, and they
\* are 0 when the values never fall below a previous value.
C16_MaxDrawdownNonPositive ==
    performance_data # <<>> =>
        /\ ~IsEmpty(report) =>
            /\ RLe(report.max_drawdown, RInt(0))
            /\ NeverFalls(performance_data) => report.max_drawdown = RInt(0)
        /\ ~IsEmpty(analytics) =>
            \A i \in DOMAIN analytics.max_drawdown :
                /\ RLe(analytics.max_drawdown[i], RInt(0))
                /\ NeverFalls(performance_data) => analytics.max_drawdown[i] = RInt(0)

\* the value doubles and then falls to a quarter of its peak: -75 % of the
\* peak for the report generator, -150 % of the first value for the manager
C16_Witness ==
    /\ performance_data = <<Snapshot(2), Snapshot(4), Snapshot(1)>>
    /\ ~IsEmpty(report) /\ ~IsEmpty(analytics)
    /\ report.max_drawdown = RInt(-75)
    /\ analytics.max_drawdown = <<RInt(-150)>>

\* C17: when there are fewer than two daily returns, or their standard
\* deviation is 0, the Sharpe ratio of the report generator is 0 and the one
\* the portfolio manager shows, if it shows one, is 0: never NaN.
C17_SharpeZeroWhenUndefined ==
    LET returns == pct_change(Column(performance_data))
    IN  (Len(returns) < 2 \/ Variance(returns) = RInt(0)) =>
            /\ ~IsEmpty(report) => report.sharpe_ratio = Zero
            /\ ~IsEmpty(analytics) =>
                \A i \in DOMAIN analytics.sharpe_ratio : analytics.sharpe_ratio[i] = Zero

\* the least of value[t]/value[1] - value[s]/value[1] over all s <= t, in
\* percent: the deepest fall from an earlier peak, in units of the first value
PeakToTrough(values) ==
    LET falls == {RSub(RDiv(values[t], values[1]), RDiv(values[s], values[1])) :
                    <<s, t>> \in {p \in (DOMAIN values) \X (DOMAIN values) : p[1] <= p[2]}}
        least == CHOOSE d \in falls : \A e \in falls : RLe(d, e)
    IN  RMul(least, RInt(100))

\* C25: for every non-empty sequence of snapshots, the max drawdown of the
\* report generator and the one the portfolio manager shows are both
\* min over t of (value[t]/value[1] - max over s <= t of value[s]/value[1]),
\* as a percentage, and so the same.
C25_MaxDrawdownIsPeakToTrough ==
    performance_data # <<>> =>
        LET expected == PeakToTrough(Column(performance_data))
        IN  /\ ~IsEmpty(report) => report.max_drawdown = expected
            /\ ~IsEmpty(analytics) =>
                \A i \in DOMAIN analytics.max_drawdown :
                    analytics.max_drawdown[i] = expected

(***************************************************************************)
(* The analytics on what the database holds: table 'portfolio_performance' *)
(* has one row per day, a day is its number, and both handlers read the    *)
(* table through Database.get_portfolio_performance.                       *)
(***************************************************************************)
DatedSnapshot(date, total_value) == [date |-> date, total_value |-> total_value]

\* database.py lines 217-225: the rows of the date range, a bound of <<>>
\* being no bound, ordered by date with desc=True
performance_query(table, start_date, end_date) ==
    LET kept == {table[i] : i \in {j \in DOMAIN table :
                    /\ start_date = <<>> \/ start_date[1] <= table[j].date
                    /\ end_date = <<>> \/ table[j].date <= end_date[1]}}
    IN  [i \in 1..Cardinality(kept) |->
            CHOOSE r \in kept : Cardinality({q \in kept : q.date > r.date}) = i - 1]

\* every table of up to MaxSnapshots daily rows of positive value
InitHistory ==
    /\ connected = TRUE /\ trades = <<>> /\ positions = EmptyFrame /\ lastOp = "none" /\ quote = <<>>
    /\ technical_data = <<>> /\ signals = <<>> /\ StrategyIdle
    /\ ScanIdle
    /\ now = 1 /\ MOCK_DATA_AVAILABLE = TRUE /\ vendor = {} /\ MarketReady
    /\ \E n \in 0..MaxSnapshots :
        \E values \in [1..n -> TotalValues] :
            portfolio_performance = [i \in 1..n |-> DatedSnapshot(i, values[i])]
    /\ performance_data = <<>> /\ analytics = <<>> /\ report = <<>>

\* portfolio_manager.py lines 250-294 on the frame of lines 492-500
ShowPerformanceAnalytics ==
    /\ IsEmpty(analytics)
    /\ \E ok \in BOOLEAN :
        LET frame == get_portfolio_performance(ok,
                        performance_query(portfolio_performance, <<>>, <<>>))
        IN  /\ performance_data' = frame
            /\ analytics' = IF ~IsEmpty(frame)
                            THEN Metrics(<<pm_total_return(frame)>>,
                                         pm_sharpe_ratio(frame),
                                         pm_max_drawdown(frame))
                            ELSE Metrics(<<>>, <<>>, <<>>)
    /\ UNCHANGED <<portfolio_performance, report, marketVars, ledgerVars, signalVars, scanVars>>

\* reports.py lines 155-164 on the frame of lines 442-447, for a date range
GenerateReport ==
    /\ IsEmpty(report)
    /\ \E start_date \in 1..MaxSnapshots, end_date \in 1..MaxSnapshots, ok \in BOOLEAN :
        /\ start_date <= end_date
        /\ LET frame == get_portfolio_performance(ok,
                            performance_query(portfolio_performance,
                                              <<start_date>>, <<end_date>>))
           IN  /\ performance_data' = frame
               /\ report' = Metrics(calculate_total_return(frame),
                                    calculate_sharpe_ratio(frame),
                                    calculate_max_drawdown(frame))
    /\ UNCHANGED <<portfolio_performance, analytics, marketVars, ledgerVars, signalVars, scanVars>>

NextHistory == ShowPerformanceAnalytics \/ GenerateReport

SpecHistory == InitHistory /\ [][NextHistory]_vars

\* the change in percent from the row of the earliest date of a frame to the
\* row of its latest date
ChronologicalReturn(frame) ==
    LET rows == {frame[i] : i \in DOMAIN frame}
        earliest == CHOOSE r \in rows : \A q \in rows : r.date <= q.date
        latest == CHOOSE r \in rows : \A q \in rows : q.date <= r.date
    IN  RMul(RSub(Rat(latest.total_value, earliest.total_value), RInt(1)), RInt(100))

\* C26: the total return that a handler calculates from the frame the
\* persistence query has delivered to it, when that frame has two rows or
\* more, is (value of the latest day / value of the earliest day) - 1.
C26_TotalReturnIsChronological ==
    [][Len(performance_data') >= 2 =>
        /\ report' # report =>
                report'.total_return = ChronologicalReturn(performance_data')
        /\ analytics' # analytics =>
                analytics'.total_return = <<ChronologicalReturn(performance_data')>>]_vars

Init == InitLedger
Next ==
    \/ NextLedger \/ NextApply \/ NextSignals \/ NextScan \/ NextTechnical \/ NextValue
    \/ NextMarket \/ NextGovernor \/ NextCache \/ NextAnalytics \/ NextHistory
Spec == Init /\ [][Next]_vars

====
